---------------------------- MODULE Spec2Model ----------------------------
(***************************************************************************)
(* A model of the query pipeline of waql-tool: QueryExecutor::execute      *)
(* (src/src/query_executor.rs), the transport client it calls              *)
(* (src/src/waapi/client.rs) and the table normalisation.                  *)
(*                                                                         *)
(* Text is modelled as a sequence of one-character strings.  The fixed     *)
(* messages of the program, which are never taken apart, are single        *)
(* elements of such a sequence (the Chinese literals of the source are     *)
(* written as ASCII glosses, named after the line that holds them).        *)
(***************************************************************************)
EXTENDS Naturals, Integers, Sequences, FiniteSets, TLC

(***************************************************************************)
(* Bounds of the model.                                                    *)
(***************************************************************************)
MaxCodeLen == 5     \* longest query text typed by the user
MaxItems == 2       \* longest "return" array of a response

(***************************************************************************)
(* Characters and whitespace (char::is_whitespace).                        *)
(***************************************************************************)
Char == {" ", "\t", "|", "a"}

(***************************************************************************)
(* A character of a text is a string of one character.  The characters a   *)
(* string of this notation cannot hold (the control characters without an  *)
(* escape, the grave accent, the characters above U+007E) go by the name   *)
(* of their code point, as in "<U+00A0>".                                  *)
(***************************************************************************)
\* the characters U+0020..U+007E, in the order of their code points
AsciiPrintable ==
    <<" ", "!", "\"", "#", "$", "%", "&", "'", "(", ")", "*", "+", ",",
      "-", ".", "/", "0", "1", "2", "3", "4", "5", "6", "7", "8", "9", ":",
      ";", "<", "=", ">", "?", "@", "A", "B", "C", "D", "E", "F", "G", "H",
      "I", "J", "K", "L", "M", "N", "O", "P", "Q", "R", "S", "T", "U", "V",
      "W", "X", "Y", "Z", "[", "\\", "]", "^", "_", "<U+0060>", "a", "b", "c",
      "d", "e", "f", "g", "h", "i", "j", "k", "l", "m", "n", "o", "p", "q",
      "r", "s", "t", "u", "v", "w", "x", "y", "z", "{", "|", "}", "~">>

\* the named characters with their code points
NamedChars ==
    {<<"<U+0000>", 0>>, <<"<U+0001>", 1>>, <<"<U+0002>", 2>>,
     <<"<U+0003>", 3>>, <<"<U+0004>", 4>>, <<"<U+0005>", 5>>,
     <<"<U+0006>", 6>>, <<"<U+0007>", 7>>, <<"<U+0008>", 8>>,
     <<"<U+000B>", 11>>, <<"<U+000E>", 14>>, <<"<U+000F>", 15>>,
     <<"<U+0010>", 16>>, <<"<U+0011>", 17>>, <<"<U+0012>", 18>>,
     <<"<U+0013>", 19>>, <<"<U+0014>", 20>>, <<"<U+0015>", 21>>,
     <<"<U+0016>", 22>>, <<"<U+0017>", 23>>, <<"<U+0018>", 24>>,
     <<"<U+0019>", 25>>, <<"<U+001A>", 26>>, <<"<U+001B>", 27>>,
     <<"<U+001C>", 28>>, <<"<U+001D>", 29>>, <<"<U+001E>", 30>>,
     <<"<U+001F>", 31>>, <<"<U+007F>", 127>>, <<"<U+0085>", 133>>,
     <<"<U+00A0>", 160>>, <<"<U+1680>", 5760>>, <<"<U+2000>", 8192>>,
     <<"<U+2001>", 8193>>, <<"<U+2002>", 8194>>, <<"<U+2003>", 8195>>,
     <<"<U+2004>", 8196>>, <<"<U+2005>", 8197>>, <<"<U+2006>", 8198>>,
     <<"<U+2007>", 8199>>, <<"<U+2008>", 8200>>, <<"<U+2009>", 8201>>,
     <<"<U+200A>", 8202>>, <<"<U+2028>", 8232>>, <<"<U+2029>", 8233>>,
     <<"<U+202F>", 8239>>, <<"<U+205F>", 8287>>, <<"<U+3000>", 12288>>}

\* the code point of a character; strings order by it (UTF-8 bytes compare
\* as code points do)
CodePoints ==
    [c \in {"\t", "\n", "\f", "\r"}
            \cup {p[1] : p \in NamedChars}
            \cup {AsciiPrintable[i] : i \in 1..Len(AsciiPrintable)} |->
        CASE c = "\t" -> 9
          [] c = "\n" -> 10
          [] c = "\f" -> 12
          [] c = "\r" -> 13
          [] \E p \in NamedChars : p[1] = c -> (CHOOSE p \in NamedChars : p[1] = c)[2]
          [] OTHER -> 31 + (CHOOSE i \in 1..Len(AsciiPrintable) : AsciiPrintable[i] = c)]

CharOrd(c) == CodePoints[c]

\* char::is_whitespace: the characters of the Unicode property White_Space
IsWhitespace(c) ==
    \/ c \in {" ", "\t", "\n", "\f", "\r"}
    \/ c \in
         {"<U+000B>", "<U+0085>", "<U+00A0>", "<U+1680>", "<U+2000>",
          "<U+2001>", "<U+2002>", "<U+2003>", "<U+2004>", "<U+2005>",
          "<U+2006>", "<U+2007>", "<U+2008>", "<U+2009>", "<U+200A>",
          "<U+2028>", "<U+2029>", "<U+202F>", "<U+205F>", "<U+3000>"}

\* Option<T>
None == [some |-> FALSE]
Some(v) == [some |-> TRUE, val |-> v]

\* Result<T, E>
Ok(v) == [ok |-> TRUE, val |-> v]
Err(e) == [ok |-> FALSE, err |-> e]

(***************************************************************************)
(* str::trim, str::split_once, str::split_whitespace                       *)
(***************************************************************************)
RECURSIVE TrimStart(_)
TrimStart(s) ==
    IF s = <<>> THEN s
    ELSE IF IsWhitespace(Head(s)) THEN TrimStart(Tail(s))
    ELSE s

RECURSIVE TrimEnd(_)
TrimEnd(s) ==
    IF s = <<>> THEN s
    ELSE IF IsWhitespace(s[Len(s)]) THEN TrimEnd(SubSeq(s, 1, Len(s) - 1))
    ELSE s

\* a slip: the text is used as typed
TrimNone(s) == s

Trim(s) == TrimEnd(TrimStart(s))

\* index of the first occurrence of c in s, 0 when there is none
Find(s, c) ==
    IF \E i \in 1..Len(s) : s[i] = c
    THEN CHOOSE i \in 1..Len(s) : s[i] = c /\ \A j \in 1..(i - 1) : s[j] # c
    ELSE 0

\* a slip: str::rsplit_once, which cuts at the last occurrence
SplitOnceLast(s, c) ==
    IF \E i \in 1..Len(s) : s[i] = c
    THEN LET i == CHOOSE i \in 1..Len(s) :
                      s[i] = c /\ \A j \in (i + 1)..Len(s) : s[j] # c
         IN  Some(<<SubSeq(s, 1, i - 1), SubSeq(s, i + 1, Len(s))>>)
    ELSE None

SplitOnce(s, c) ==
    LET i == Find(s, c)
    IN  IF i = 0 THEN None
        ELSE Some(<<SubSeq(s, 1, i - 1), SubSeq(s, i + 1, Len(s))>>)

\* the longest prefix of s without whitespace
RECURSIVE TakeToken(_)
TakeToken(s) ==
    IF s = <<>> \/ IsWhitespace(Head(s)) THEN <<>>
    ELSE <<Head(s)>> \o TakeToken(Tail(s))

RECURSIVE SplitWhitespace(_)
SplitWhitespace(s) ==
    LET t == TrimStart(s)
    IN  IF t = <<>> THEN <<>>
        ELSE LET tok == TakeToken(t)
             IN  <<tok>> \o SplitWhitespace(SubSeq(t, Len(tok) + 1, Len(t)))

(***************************************************************************)
(* serde_json::Value.  An object holds its entries <<key, value>> in the   *)
(* order in which Map::keys() and Map::iter() yield them.                  *)
(***************************************************************************)
JNull == [kind |-> "null"]
JBool(b) == [kind |-> "bool", b |-> b]
\* a Number that is an integer (N::PosInt, N::NegInt)
JNum(n) == [kind |-> "number", float |-> FALSE, neg |-> n < 0, n |-> n, exp |-> 0]
\* a Number that is a float (N::Float): the f64 whose shortest decimal that
\* reads back as the same f64 has the digits of mant (no zero at the end,
\* or 0 itself) times ten to the exp, with the sign bit neg
JFloat(neg, mant, exp) ==
    [kind |-> "number", float |-> TRUE, neg |-> neg, n |-> mant, exp |-> exp]
JStr(s) == [kind |-> "string", s |-> s]
JArr(items) == [kind |-> "array", items |-> items]
JObj(entries) == [kind |-> "object", entries |-> entries]

KeyReturn == <<"r", "e", "t", "u", "r", "n">>

\* Map::get / Value::get on an object: the value under key k
HasKey(obj, k) == \E i \in 1..Len(obj.entries) : obj.entries[i][1] = k

GetKey(obj, k) ==
    LET i == CHOOSE i \in 1..Len(obj.entries) : obj.entries[i][1] = k
    IN  obj.entries[i][2]

\* Value::get(key): None unless the value is an object that has the key
ValueGet(v, k) ==
    IF v.kind = "object" /\ HasKey(v, k) THEN Some(GetKey(v, k)) ELSE None

(***************************************************************************)
(* QueryExecutor::parse_query                                              *)
(***************************************************************************)
ReturnOptions(tokens) ==
    JObj(<< <<KeyReturn, JArr([i \in 1..Len(tokens) |-> JStr(tokens[i])])>> >>)

\* a slip: the options are built also from an empty options text
ParseQueryAlwaysOptions(code) ==
    LET sp == SplitOnce(code, "|")
    IN  IF sp.some
        THEN [query |-> Trim(sp.val[1]),
              options |-> Some(ReturnOptions(SplitWhitespace(Trim(sp.val[2]))))]
        ELSE [query |-> code, options |-> None]

ParseQuery(code) ==
    LET sp == SplitOnce(code, "|")
    IN  IF sp.some
        THEN LET query == Trim(sp.val[1])
                 options_str == Trim(sp.val[2])
             IN  [query |-> query,
                  options |-> IF options_str = <<>> THEN None
                              ELSE Some(ReturnOptions(SplitWhitespace(options_str)))]
        ELSE [query |-> code, options |-> None]


(***************************************************************************)
(* Text of numbers and of JSON values: i64::to_string,                     *)
(* serde_json::to_string (compact) and serde_json::to_string_pretty.       *)
(***************************************************************************)
DigitChar(d) ==
    CASE d = 0 -> "0" [] d = 1 -> "1" [] d = 2 -> "2" [] d = 3 -> "3"
      [] d = 4 -> "4" [] d = 5 -> "5" [] d = 6 -> "6" [] d = 7 -> "7"
      [] d = 8 -> "8" [] d = 9 -> "9"

RECURSIVE NatToString(_)
NatToString(n) ==
    IF n < 10 THEN <<DigitChar(n)>>
    ELSE NatToString(n \div 10) \o <<DigitChar(n % 10)>>

\* itoa: the digits of an integer, a minus sign before a negative one
IntToString(n) == IF n < 0 THEN <<"-">> \o NatToString(0 - n) ELSE NatToString(n)

Zeros(n) == [i \in 1..n |-> "0"]

\* the power of ten in the text of a float: always with its sign
ExponentToString(e) ==
    IF e < 0 THEN <<"-">> \o NatToString(0 - e) ELSE <<"+">> \o NatToString(e)

\* the text serde_json writes for an f64 (Display of N::Float, and the
\* serializer): digits are those of the shortest decimal, k is its power of
\* ten, kk the number of digits that stand before the decimal point. In turn:
\* 1234e7 -> 12340000000.0, 1234e-2 -> 12.34, 1234e-6 -> 0.001234,
\* 1e30 -> 1e+30, 1234e30 -> 1.234e+33, 1e-6 -> 1e-6
FloatToString(neg, mant, k) ==
    LET sign == IF neg THEN <<"-">> ELSE <<>>
        digits == NatToString(mant)
        length == Len(digits)
        kk == length + k
    IN  IF mant = 0 THEN sign \o <<"0", ".", "0">>
        ELSE IF 0 <= k /\ kk <= 16
        THEN sign \o digits \o Zeros(k) \o <<".", "0">>
        ELSE IF 0 < kk /\ kk <= 16
        THEN sign \o SubSeq(digits, 1, kk) \o <<".">> \o SubSeq(digits, kk + 1, length)
        ELSE IF -5 < kk /\ kk <= 0
        THEN sign \o <<"0", ".">> \o Zeros(0 - kk) \o digits
        ELSE IF length = 1
        THEN sign \o digits \o <<"e">> \o ExponentToString(kk - 1)
        ELSE sign \o <<digits[1], ".">> \o SubSeq(digits, 2, length)
                  \o <<"e">> \o ExponentToString(kk - 1)

\* a slip: a float is written without its power of ten
NumberToStringNoExponent(num) ==
    IF num.float THEN (IF num.neg THEN <<"-">> ELSE <<>>) \o NatToString(num.n)
    ELSE IntToString(num.n)

\* Display of serde_json::Number, also what the serializer writes for it
NumberToString(num) ==
    IF num.float THEN FloatToString(num.neg, num.n, num.exp)
    ELSE IntToString(num.n)

BoolToString(b) ==
    IF b THEN <<"t", "r", "u", "e">> ELSE <<"f", "a", "l", "s", "e">>

NullText == <<"n", "u", "l", "l">>

HexDigit(d) ==
    <<"0", "1", "2", "3", "4", "5", "6", "7", "8", "9", "a", "b", "c", "d", "e", "f">>[d + 1]

\* the escapes serde_json writes inside a string literal
EscapeChar(c) ==
    CASE c = "\"" -> <<"\\", "\"">>
      [] c = "\\" -> <<"\\", "\\">>
      [] c = "\n" -> <<"\\", "n">>
      [] c = "\r" -> <<"\\", "r">>
      [] c = "\t" -> <<"\\", "t">>
      [] c = "\f" -> <<"\\", "f">>
      [] c = "<U+0008>" -> <<"\\", "b">>
      [] c \notin {"\"", "\\", "\n", "\r", "\t", "\f", "<U+0008>"}
         /\ CharOrd(c) < 32 ->
            <<"\\", "u", "0", "0", HexDigit(CharOrd(c) \div 16), HexDigit(CharOrd(c) % 16)>>
      [] OTHER -> <<c>>

RECURSIVE EscapeString(_)
EscapeString(s) ==
    IF s = <<>> THEN <<>> ELSE EscapeChar(Head(s)) \o EscapeString(Tail(s))

QuoteString(s) == <<"\"">> \o EscapeString(s) \o <<"\"">>

RECURSIVE ToJsonString(_)
RECURSIVE JoinItems(_, _)
RECURSIVE JoinEntries(_, _)
\* the items of an array from index i on, separated by commas
JoinItems(items, i) ==
    IF i > Len(items) THEN <<>>
    ELSE (IF i > 1 THEN <<",">> ELSE <<>>)
         \o ToJsonString(items[i]) \o JoinItems(items, i + 1)

JoinEntries(entries, i) ==
    IF i > Len(entries) THEN <<>>
    ELSE (IF i > 1 THEN <<",">> ELSE <<>>)
         \o QuoteString(entries[i][1]) \o <<":">> \o ToJsonString(entries[i][2])
         \o JoinEntries(entries, i + 1)

ToJsonString(v) ==
    CASE v.kind = "null" -> NullText
      [] v.kind = "bool" -> BoolToString(v.b)
      [] v.kind = "number" -> NumberToString(v)
      [] v.kind = "string" -> QuoteString(v.s)
      [] v.kind = "array" -> <<"[">> \o JoinItems(v.items, 1) \o <<"]">>
      [] v.kind = "object" -> <<"{">> \o JoinEntries(v.entries, 1) \o <<"}">>

RECURSIVE Indent(_)
Indent(depth) == IF depth = 0 THEN <<>> ELSE <<" ", " ">> \o Indent(depth - 1)

RECURSIVE PrettyAt(_, _)
RECURSIVE PrettyItems(_, _, _)
RECURSIVE PrettyEntries(_, _, _)
PrettyItems(items, i, depth) ==
    IF i > Len(items) THEN <<>>
    ELSE (IF i > 1 THEN <<",">> ELSE <<>>) \o <<"\n">> \o Indent(depth)
         \o PrettyAt(items[i], depth) \o PrettyItems(items, i + 1, depth)

PrettyEntries(entries, i, depth) ==
    IF i > Len(entries) THEN <<>>
    ELSE (IF i > 1 THEN <<",">> ELSE <<>>) \o <<"\n">> \o Indent(depth)
         \o QuoteString(entries[i][1]) \o <<":", " ">>
         \o PrettyAt(entries[i][2], depth) \o PrettyEntries(entries, i + 1, depth)

\* the text of v when it starts at nesting depth `depth`
PrettyAt(v, depth) ==
    CASE v.kind = "array" ->
            IF v.items = <<>> THEN <<"[", "]">>
            ELSE <<"[">> \o PrettyItems(v.items, 1, depth + 1)
                 \o <<"\n">> \o Indent(depth) \o <<"]">>
      [] v.kind = "object" ->
            IF v.entries = <<>> THEN <<"{", "}">>
            ELSE <<"{">> \o PrettyEntries(v.entries, 1, depth + 1)
                 \o <<"\n">> \o Indent(depth) \o <<"}">>
      [] OTHER -> ToJsonString(v)

ToStringPretty(v) == PrettyAt(v, 0)

(***************************************************************************)
(* QueryExecutor::value_to_string and QueryExecutor::parse_table_data      *)
(***************************************************************************)
\* a slip: null gives the empty text
ValueToStringNullEmpty(value) ==
    CASE value.kind = "string" -> value.s
      [] value.kind = "number" -> NumberToString(value)
      [] value.kind = "bool" -> BoolToString(value.b)
      [] value.kind = "null" -> <<>>
      [] OTHER -> ToJsonString(value)

ValueToString(value) ==
    CASE value.kind = "string" -> value.s
      [] value.kind = "number" -> NumberToString(value)
      [] value.kind = "bool" -> BoolToString(value.b)
      [] value.kind = "null" -> NullText
      [] OTHER -> ToJsonString(value)

\* the inner loop of column discovery: the keys of one object, from entry i on
RECURSIVE AddKeys(_, _, _)
AddKeys(columns, entries, i) ==
    IF i > Len(entries) THEN columns
    ELSE LET key == entries[i][1]
             seen == \E j \in 1..Len(columns) : columns[j] = key
         IN  AddKeys(IF seen THEN columns ELSE Append(columns, key), entries, i + 1)

\* the outer loop of column discovery, from item i on
RECURSIVE CollectColumns(_, _, _)
CollectColumns(columns, items, i) ==
    IF i > Len(items) THEN columns
    ELSE CollectColumns(
            IF items[i].kind = "object" THEN AddKeys(columns, items[i].entries, 1)
            ELSE columns,
            items, i + 1)

\* a slip: a row holds only the keys its object has
BuildRowPresentOnly(obj, columns) ==
    [col \in {columns[j] : j \in {k \in 1..Len(columns) : HasKey(obj, columns[k])}} |->
        ValueToString(GetKey(obj, col))]

\* one row: a HashMap from every column to the text of the cell
BuildRow(obj, columns) ==
    [col \in {columns[j] : j \in 1..Len(columns)} |->
        IF HasKey(obj, col) THEN ValueToString(GetKey(obj, col)) ELSE <<>>]

\* a slip: every item of the array gets a row
RECURSIVE BuildRowsAllItems(_, _, _)
BuildRowsAllItems(items, columns, i) ==
    IF i > Len(items) THEN <<>>
    ELSE <<BuildRow(IF items[i].kind = "object" THEN items[i] ELSE JObj(<<>>), columns)>>
         \o BuildRowsAllItems(items, columns, i + 1)

RECURSIVE BuildRows(_, _, _)
BuildRows(items, columns, i) ==
    IF i > Len(items) THEN <<>>
    ELSE (IF items[i].kind = "object" THEN <<BuildRow(items[i], columns)>> ELSE <<>>)
         \o BuildRows(items, columns, i + 1)

\* a slip: no early return for the empty array
ParseTableDataNoEmptyCheck(result) ==
    LET ret == ValueGet(result, KeyReturn)
    IN  IF ~ret.some THEN None
        ELSE IF ret.val.kind # "array" THEN None
        ELSE LET columns == CollectColumns(<<>>, ret.val.items, 1)
             IN  Some([columns |-> columns,
                       rows |-> BuildRows(ret.val.items, columns, 1)])

ParseTableData(result) ==
    LET ret == ValueGet(result, KeyReturn)
    IN  IF ~ret.some THEN None
        ELSE IF ret.val.kind # "array" THEN None
        ELSE IF ret.val.items = <<>> THEN None
        ELSE LET columns == CollectColumns(<<>>, ret.val.items, 1)
             IN  Some([columns |-> columns,
                       rows |-> BuildRows(ret.val.items, columns, 1)])

(***************************************************************************)
(* serde_json::Map.  Built without the crate feature preserve_order it is  *)
(* a BTreeMap, whose keys iterate in the byte order of the strings; built  *)
(* with it, an IndexMap, whose keys iterate in insertion order.  The       *)
(* sources do not fix the feature, so the model keeps both builds.         *)
(***************************************************************************)
RECURSIVE StrLess(_, _)
StrLess(s, t) ==
    IF t = <<>> THEN FALSE
    ELSE IF s = <<>> THEN TRUE
    ELSE IF Head(s) = Head(t) THEN StrLess(Tail(s), Tail(t))
    ELSE CharOrd(Head(s)) < CharOrd(Head(t))

HasEntry(entries, k) == \E i \in 1..Len(entries) : entries[i][1] = k

\* the entries with the value of key e[1], which they hold, replaced
ReplaceValue(entries, e) ==
    [i \in 1..Len(entries) |-> IF entries[i][1] = e[1] THEN e ELSE entries[i]]

\* entry e put at its place in the entries `sorted`, which are in key order
\* and do not hold its key
RECURSIVE InsertSorted(_, _)
InsertSorted(sorted, e) ==
    IF sorted = <<>> THEN <<e>>
    ELSE IF StrLess(e[1], Head(sorted)[1]) THEN <<e>> \o sorted
    ELSE <<Head(sorted)>> \o InsertSorted(Tail(sorted), e)

\* Map::insert: the value of a key the map holds is replaced where it is; a
\* new key goes to its place in key order (BTreeMap) or to the end (IndexMap)
MapInsert(entries, e, preserve) ==
    IF HasEntry(entries, e[1]) THEN ReplaceValue(entries, e)
    ELSE IF preserve THEN Append(entries, e)
    ELSE InsertSorted(entries, e)

\* the entries of the map after the inserts of entries[1..n], in this order
RECURSIVE InsertAll(_, _, _)
InsertAll(entries, n, preserve) ==
    IF n = 0 THEN <<>>
    ELSE MapInsert(InsertAll(entries, n - 1, preserve), entries[n], preserve)

\* the Map holding the entries inserted in the order given
MakeMap(entries, preserve) == JObj(InsertAll(entries, Len(entries), preserve))

\* Body::read_json: the Value of a response body, whose objects are given
\* with their members in the order of the text
RECURSIVE ReadJson(_, _)
ReadJson(doc, preserve) ==
    CASE doc.kind = "array" ->
            JArr([i \in 1..Len(doc.items) |-> ReadJson(doc.items[i], preserve)])
      [] doc.kind = "object" ->
            MakeMap([i \in 1..Len(doc.entries) |->
                        <<doc.entries[i][1], ReadJson(doc.entries[i][2], preserve)>>],
                    preserve)
      [] OTHER -> doc

(***************************************************************************)
(* The transport client: call and waql_query (src/src/waapi/client.rs).    *)
(* `net` is what the network does with the one POST: the send fails, the   *)
(* service answers with an error status, the body is not JSON, or the body *)
(* is the JSON document net.doc.  QueryExecutor holds a WaapiClient and     *)
(* calls its waql_query; the client modelled is the one of client.rs.      *)
(***************************************************************************)
KeyUri == <<"u", "r", "i">>
KeyOptions == <<"o", "p", "t", "i", "o", "n", "s">>
KeyArgs == <<"a", "r", "g", "s">>
KeyWaql == <<"w", "a", "q", "l">>
UriObjectGet == <<"ak.wwise.core.object.get">>

\* the text of the ureq::Error of send_json: the request did not get through,
\* or the service answered with an error status (4xx, 5xx)
ErrSend == <<"<ureq::Error: io/connect>">>
ErrStatus == <<"<ureq::Error: http status>">>
\* the text of the ureq::Error of read_json
ErrBody == <<"<ureq::Error: body is not JSON>">>
\* client.rs:30, "the returned result is not a JSON object"
ErrNotObject == <<"fanhui de jieguo bu shi JSON duixiang">>

\* a slip: absent options and args are sent as null
EnvelopeNullOptions(uri, args, options, preserve) ==
    MakeMap(<< <<KeyUri, JStr(uri)>>,
               <<KeyOptions, IF options.some THEN options.val ELSE JNull>>,
               <<KeyArgs, IF args.some THEN args.val ELSE JNull>> >>,
            preserve)

Envelope(uri, args, options, preserve) ==
    MakeMap(<< <<KeyUri, JStr(uri)>>,
               <<KeyOptions, IF options.some THEN options.val ELSE JObj(<<>>)>>,
               <<KeyArgs, IF args.some THEN args.val ELSE JObj(<<>>)>> >>,
            preserve)

\* a slip: whatever JSON value comes back is passed on
ClientCallAnyValue(uri, args, options, net, preserve) ==
    IF net.kind = "send_error" THEN Err(ErrSend)
    ELSE IF net.kind = "http_error" THEN Err(ErrStatus)
    ELSE IF net.kind = "bad_body" THEN Err(ErrBody)
    ELSE Ok(ReadJson(net.doc, preserve))

ClientCall(uri, args, options, net, preserve) ==
    IF net.kind = "send_error" THEN Err(ErrSend)
    ELSE IF net.kind = "http_error" THEN Err(ErrStatus)
    ELSE IF net.kind = "bad_body" THEN Err(ErrBody)
    ELSE LET result == ReadJson(net.doc, preserve)
         IN  IF result.kind = "object" THEN Ok(result) ELSE Err(ErrNotObject)

WaqlArgs(query) == JObj(<< <<KeyWaql, JStr(query)>> >>)

WaqlQuery(query, options, net, preserve) ==
    ClientCall(UriObjectGet, Some(WaqlArgs(query)), options, net, preserve)

(***************************************************************************)
(* QueryExecutor::execute                                                  *)
(***************************************************************************)
\* query_executor.rs:88, "please enter a WAQL query statement"
MsgEmptyQuery == <<"qing shuru WAQL chaxun yuju">>
\* query_executor.rs:110, "query failed: "
MsgQueryFailed == <<"chaxun shibai: ">>

\* a slip: the count is the length of the "return" array
QueryResultCountItems(result) ==
    LET table_data == ParseTableData(result)
        ret == ValueGet(result, KeyReturn)
    IN  [raw_json |-> ToStringPretty(result),
         table_data |-> table_data,
         count |-> IF ret.some /\ ret.val.kind = "array" THEN Len(ret.val.items) ELSE 0]

\* the Ok arm of the match on the client's answer (to_string_pretty does not
\* fail on a Value, so the fallback text of line 99 is never produced)
QueryResult(result) ==
    LET raw_json == ToStringPretty(result)
        table_data == ParseTableData(result)
        count == IF table_data.some THEN Len(table_data.val.rows) ELSE 0
    IN  [raw_json |-> raw_json, table_data |-> table_data, count |-> count]

\* a slip: a response without a table is reported as a failure
ExecuteResultNeedsTable(answer) ==
    IF answer.ok
    THEN IF ParseTableData(answer.val).some THEN Ok(QueryResult(answer.val))
         ELSE Err(MsgQueryFailed)
    ELSE Err(MsgQueryFailed \o answer.err)

\* what execute returns once the client has answered
ExecuteResult(answer) ==
    IF answer.ok THEN Ok(QueryResult(answer.val))
    ELSE Err(MsgQueryFailed \o answer.err)

VARIABLES
    preserve_order, \* the build: serde_json's Map keeps insertion order
    pc,             \* where execute is: "idle", "transporting", "done"
    code,           \* the argument of execute
    request,        \* Some([query, options]) once parse_query has run
    envelope,       \* Some(the JSON body posted) once the client has sent it
    reply,          \* Some(what the network did with the POST)
    response,       \* Some(what the client returned)
    exchanges,      \* the number of POSTs of this call
    outcome,        \* Some(what execute returned)
    csv_out,        \* Some(what the export of the table of this result did)
    saved_queries,  \* UserConfig.saved_queries
    custom_keywords, \* UserConfig.custom_keywords
    cfg_last,       \* Some(the last call of a method of UserConfig and its result)
    val_in,         \* Some(the argument of the last call of value_to_string)
    val_out,        \* Some(what that call returned)
    app_open,       \* the window exists: WaqlApp::default has run
    app_code,       \* WaqlApp.code, the text of the editor
    app_result,     \* WaqlApp.result
    app_table_data, \* WaqlApp.table_data
    has_error,      \* WaqlApp.has_error
    status_message, \* WaqlApp.status_message
    app_saved_queries, \* WaqlApp.config.saved_queries
    app_last        \* Some(the last handler of WaqlApp that ran and what it read)

exec_vars ==
    <<preserve_order, pc, code, request, envelope, reply, response, exchanges,
      outcome, csv_out>>
cfg_vars == <<saved_queries, custom_keywords, cfg_last>>
val_vars == <<val_in, val_out>>
app_vars ==
    <<app_open, app_code, app_result, app_table_data, has_error, status_message,
      app_saved_queries, app_last>>
vars == <<exec_vars, cfg_vars, val_vars, app_vars>>

\* the executor and the configuration as constructed (QueryExecutor::new,
\* UserConfig::default); the window is not yet there, Launch constructs it
Init ==
    /\ preserve_order \in BOOLEAN
    /\ pc = "idle"
    /\ code = <<>>
    /\ request = None
    /\ envelope = None
    /\ reply = None
    /\ response = None
    /\ exchanges = 0
    /\ outcome = None
    /\ csv_out = None
    /\ saved_queries = <<>>
    /\ custom_keywords = <<>>
    /\ cfg_last = None
    /\ val_in = None
    /\ val_out = None
    /\ app_open = FALSE
    /\ app_code = <<>>
    /\ app_result = <<>>
    /\ app_table_data = None
    /\ has_error = FALSE
    /\ status_message = <<>>
    /\ app_saved_queries = <<>>
    /\ app_last = None

\* execute up to the call of the client: trim, the empty check, parse_query
Call(c) ==
    /\ pc = "idle"
    /\ code' = c
    /\ LET trimmed == Trim(c)
       IN  IF trimmed = <<>>
           THEN /\ outcome' = Some(Err(MsgEmptyQuery))
                /\ request' = None
                /\ pc' = "done"
           ELSE /\ request' = Some(ParseQuery(trimmed))
                /\ outcome' = None
                /\ pc' = "transporting"
    /\ UNCHANGED <<preserve_order, envelope, reply, response, exchanges, csv_out>>
    /\ UNCHANGED <<cfg_vars, val_vars, app_vars>>

\* a slip: a failed exchange is tried once more
ExchangeRetry(net) ==
    /\ pc = "transporting"
    /\ LET answer == WaqlQuery(request.val.query, request.val.options, net,
                               preserve_order)
           again == ~answer.ok /\ exchanges < 1
       IN  /\ envelope' = Some(Envelope(UriObjectGet,
                                        Some(WaqlArgs(request.val.query)),
                                        request.val.options, preserve_order))
           /\ reply' = Some(net)
           /\ response' = IF again THEN None ELSE Some(answer)
           /\ outcome' = IF again THEN None ELSE Some(ExecuteResult(answer))
           /\ pc' = IF again THEN "transporting" ELSE "done"
    /\ exchanges' = exchanges + 1
    /\ UNCHANGED <<preserve_order, code, request, csv_out>>
    /\ UNCHANGED <<cfg_vars, val_vars, app_vars>>

\* the client's exchange and the rest of execute
Exchange(net) ==
    /\ pc = "transporting"
    /\ LET answer == WaqlQuery(request.val.query, request.val.options, net,
                               preserve_order)
       IN  /\ envelope' = Some(Envelope(UriObjectGet,
                                        Some(WaqlArgs(request.val.query)),
                                        request.val.options, preserve_order))
           /\ reply' = Some(net)
           /\ response' = Some(answer)
           /\ outcome' = Some(ExecuteResult(answer))
    /\ exchanges' = exchanges + 1
    /\ pc' = "done"
    /\ UNCHANGED <<preserve_order, code, request, csv_out>>
    /\ UNCHANGED <<cfg_vars, val_vars, app_vars>>

\* the caller takes the result; the executor keeps nothing of the call
Return ==
    /\ pc = "done"
    /\ pc' = "idle"
    /\ code' = <<>>
    /\ request' = None
    /\ envelope' = None
    /\ reply' = None
    /\ response' = None
    /\ exchanges' = 0
    /\ outcome' = None
    /\ csv_out' = None
    /\ UNCHANGED preserve_order
    /\ UNCHANGED <<cfg_vars, val_vars, app_vars>>

(***************************************************************************)
(* The inputs: query texts and what the network answers.                   *)
(***************************************************************************)
Strings(n) == UNION {[1..k -> Char] : k \in 0..n}

KeyA == <<"a">>
KeyB == <<"b">>
KeyCount == <<"c", "o", "u", "n", "t">>
Keys == {KeyA, KeyB}
CellValues == {JNum(12), JStr(<<"x">>), JNull}

\* the objects of a "return" array: any keys, in any order of the text
ObjectDocs ==
    {JObj(<<>>)}
    \cup {JObj(<< <<k, v>> >>) : k \in Keys, v \in CellValues}
    \cup {JObj(<< <<k1, v1>>, <<k2, v2>> >>) :
            <<k1, k2>> \in {<<KeyA, KeyB>>, <<KeyB, KeyA>>},
            <<v1, v2>> \in CellValues \X CellValues}
OtherItems == {JNum(3), JNull}
Items == ObjectDocs \cup OtherItems

ReturnDoc(v) == JObj(<< <<KeyReturn, v>> >>)

Arrays(n) == UNION {[1..k -> Items] : k \in 0..n}

\* response bodies that are JSON
Docs ==
    {ReturnDoc(JArr(items)) : items \in Arrays(MaxItems)}
    \cup {ReturnDoc(JNum(5)), ReturnDoc(JNull), ReturnDoc(JObj(<< <<KeyA, JNum(1)>> >>)),
          JObj(<<>>), JObj(<< <<KeyCount, JNum(5)>> >>),
          JObj(<< <<KeyReturn, JArr(<<JObj(<< <<KeyB, JNull>> >>)>>)>>,
                  <<KeyCount, JNum(1)>> >>),
          ReturnDoc(JArr(<<JObj(<< <<KeyB, JNum(1)>>, <<KeyA, JNum(2)>>,
                                   <<KeyB, JNum(3)>> >>)>>)),
          ReturnDoc(JArr(<<JObj(<< <<KeyA, JFloat(FALSE, 15, -1)>> >>)>>)),
          JArr(<<>>), JArr(<<JObj(<<>>)>>), JNum(5), JStr(<<"x">>), JNull, JBool(TRUE)}

NetFailures == {[kind |-> "send_error"], [kind |-> "http_error"], [kind |-> "bad_body"]}
NetOutcomes == NetFailures \cup {[kind |-> "json", doc |-> d] : d \in Docs}

\* a few answers of each kind, for the runs that vary the query text
NetSamples ==
    NetFailures
    \cup {[kind |-> "json", doc |-> d] :
            d \in {JArr(<<>>), JObj(<< <<KeyCount, JNum(5)>> >>),
                   ReturnDoc(JArr(<<JObj(<< <<KeyB, JNum(12)>>, <<KeyA, JStr(<<"x">>)>> >>),
                                    JObj(<< <<KeyA, JNull>> >>)>>))}}

\* a few query texts, for the runs that vary the response
CodeSamples == {<<>>, <<" ">>, <<"\f", "<U+3000>">>, <<"a">>, <<"a", " ", "|", "a">>}

(***************************************************************************)
(* Spec varies the query text; SpecNorm varies the response.               *)
(***************************************************************************)
Next ==
    \/ pc = "idle" /\ \E c \in Strings(MaxCodeLen) : Call(c)
    \/ pc = "transporting" /\ \E net \in NetSamples : Exchange(net)
    \/ Return

Spec == Init /\ [][Next]_vars

NextNorm ==
    \/ pc = "idle" /\ \E c \in CodeSamples : Call(c)
    \/ pc = "transporting" /\ \E net \in NetOutcomes : Exchange(net)
    \/ Return

SpecNorm == Init /\ [][NextNorm]_vars

(***************************************************************************)
(* TableData::export_to_csv, with the csv crate's Writer in its default    *)
(* setting: fields separated by ",", records ended by "\n", a field quoted *)
(* when it holds the delimiter, a quote, "\r" or "\n", a quote inside a    *)
(* quoted field doubled, and a record that has put out no byte (no field,  *)
(* or one empty field) written as "".  Every record of one export has as   *)
(* many fields as there are columns, so the Writer's check of the field    *)
(* count never fails.                                                      *)
(***************************************************************************)
MaxCsvRows == 2     \* longest "return" array of a response that is exported

CsvNeedsQuotes(field) ==
    \E i \in 1..Len(field) : field[i] \in {",", "\"", "\r", "\n"}

RECURSIVE CsvDoubleQuotes(_)
CsvDoubleQuotes(field) ==
    IF field = <<>> THEN <<>>
    ELSE (IF Head(field) = "\"" THEN <<"\"", "\"">> ELSE <<Head(field)>>)
         \o CsvDoubleQuotes(Tail(field))

CsvWriteField(field) ==
    IF CsvNeedsQuotes(field) THEN <<"\"">> \o CsvDoubleQuotes(field) \o <<"\"">>
    ELSE field

\* the fields of a record from index i on, separated by the delimiter
RECURSIVE CsvJoinFields(_, _)
CsvJoinFields(fields, i) ==
    IF i > Len(fields) THEN <<>>
    ELSE (IF i > 1 THEN <<",">> ELSE <<>>)
         \o CsvWriteField(fields[i]) \o CsvJoinFields(fields, i + 1)

\* Writer::write_record
CsvWriteRecord(fields) ==
    LET body == CsvJoinFields(fields, 1)
    IN  (IF body = <<>> THEN <<"\"", "\"">> ELSE body) \o <<"\n">>

RECURSIVE CsvWriteRecords(_, _)
CsvWriteRecords(records, i) ==
    IF i > Len(records) THEN <<>>
    ELSE CsvWriteRecord(records[i]) \o CsvWriteRecords(records, i + 1)

\* the record written for one row: the cell under every column, in order
ExportRecord(columns, row) ==
    [j \in 1..Len(columns) |->
        IF columns[j] \in DOMAIN row THEN row[columns[j]] ELSE <<>>]

\* a slip: no header is written
ExportRecordsNoHeader(table) ==
    [r \in 1..Len(table.rows) |-> ExportRecord(table.columns, table.rows[r])]

\* the records handed to the Writer: the header, then one for each row
ExportRecords(table) ==
    <<table.columns>>
    \o [r \in 1..Len(table.rows) |-> ExportRecord(table.columns, table.rows[r])]

\* the error of Writer::from_path, write_record or flush
ErrIo == <<"<csv::Error: io>">>

ExportToCsv(table, io_ok) ==
    IF io_ok
    THEN Ok([records |-> ExportRecords(table),
             text |-> CsvWriteRecords(ExportRecords(table), 1)])
    ELSE Err(ErrIo)

\* the caller exports the table of the result it holds
Export(io_ok) ==
    /\ pc = "done"
    /\ outcome.val.ok
    /\ outcome.val.val.table_data.some
    /\ csv_out' = Some(ExportToCsv(outcome.val.val.table_data.val, io_ok))
    /\ UNCHANGED <<preserve_order, pc, code, request, envelope, reply, response,
                   exchanges, outcome>>
    /\ UNCHANGED <<cfg_vars, val_vars, app_vars>>

KeyC == <<"c">>
KeyQ == <<"\"", ",">>
CsvCells == {JStr(<<>>), JStr(<<",", "\"", "\n">>), JNum(1)}
CsvObjects ==
    {JObj(<<>>)}
    \cup {JObj(<< <<k, v>> >>) : k \in {KeyA, KeyQ}, v \in CsvCells}
    \cup {JObj(<< <<KeyA, v1>>, <<KeyQ, v2>> >>) : <<v1, v2>> \in CsvCells \X CsvCells}
CsvItems == CsvObjects \cup {JNum(3)}

\* the response of the example of the specification
ExampleDoc ==
    ReturnDoc(JArr(<<JObj(<< <<KeyA, JNum(1)>>, <<KeyB, JStr(<<"x">>)>> >>),
                     JObj(<< <<KeyB, JStr(<<"y">>)>>, <<KeyC, JBool(TRUE)>> >>)>>))

CsvDocs ==
    {ReturnDoc(JArr(items)) : items \in UNION {[1..k -> CsvItems] : k \in 0..MaxCsvRows}}
    \cup {ExampleDoc,
          ReturnDoc(JArr(<<JObj(<< <<KeyA, JFloat(FALSE, 1, 16)>>,
                                   <<KeyQ, JFloat(TRUE, 0, 0)>> >>)>>))}

NextCsv ==
    \/ pc = "idle" /\ Call(<<"a">>)
    \/ pc = "transporting" /\ \E d \in CsvDocs : Exchange([kind |-> "json", doc |-> d])
    \/ \E io_ok \in BOOLEAN : Export(io_ok)
    \/ Return

SpecCsv == Init /\ [][NextCsv]_vars

(***************************************************************************)
(* UserConfig: the lists of saved queries and of custom keywords           *)
(* (src/src/config.rs).                                                    *)
(***************************************************************************)
MaxIndex == 3       \* largest index passed to a remove

Contains(list, item) == \E i \in 1..Len(list) : list[i] = item

\* Vec::remove(index), index counted from 0
RemoveAt(list, index) ==
    SubSeq(list, 1, index) \o SubSeq(list, index + 2, Len(list))

AddSavedQuery(query) ==
    /\ IF ~Contains(saved_queries, query)
       THEN /\ saved_queries' = Append(saved_queries, query)
            /\ cfg_last' = Some([op |-> "add_saved_query", arg |-> query, ret |-> TRUE])
       ELSE /\ saved_queries' = saved_queries
            /\ cfg_last' = Some([op |-> "add_saved_query", arg |-> query, ret |-> FALSE])
    /\ UNCHANGED <<custom_keywords, exec_vars, val_vars, app_vars>>

RemoveSavedQuery(index) ==
    /\ IF index < Len(saved_queries)
       THEN /\ saved_queries' = RemoveAt(saved_queries, index)
            /\ cfg_last' = Some([op |-> "remove_saved_query", arg |-> index,
                                 ret |-> Some(saved_queries[index + 1])])
       ELSE /\ saved_queries' = saved_queries
            /\ cfg_last' = Some([op |-> "remove_saved_query", arg |-> index,
                                 ret |-> None])
    /\ UNCHANGED <<custom_keywords, exec_vars, val_vars, app_vars>>

\* a slip: the empty keyword is not refused
AddCustomKeywordAnyText(keyword) ==
    /\ IF ~Contains(custom_keywords, keyword)
       THEN /\ custom_keywords' = Append(custom_keywords, keyword)
            /\ cfg_last' = Some([op |-> "add_custom_keyword", arg |-> keyword,
                                 ret |-> TRUE])
       ELSE /\ custom_keywords' = custom_keywords
            /\ cfg_last' = Some([op |-> "add_custom_keyword", arg |-> keyword,
                                 ret |-> FALSE])
    /\ UNCHANGED <<saved_queries, exec_vars, val_vars, app_vars>>

AddCustomKeyword(keyword) ==
    /\ IF keyword # <<>> /\ ~Contains(custom_keywords, keyword)
       THEN /\ custom_keywords' = Append(custom_keywords, keyword)
            /\ cfg_last' = Some([op |-> "add_custom_keyword", arg |-> keyword,
                                 ret |-> TRUE])
       ELSE /\ custom_keywords' = custom_keywords
            /\ cfg_last' = Some([op |-> "add_custom_keyword", arg |-> keyword,
                                 ret |-> FALSE])
    /\ UNCHANGED <<saved_queries, exec_vars, val_vars, app_vars>>

RemoveCustomKeyword(index) ==
    /\ IF index < Len(custom_keywords)
       THEN /\ custom_keywords' = RemoveAt(custom_keywords, index)
            /\ cfg_last' = Some([op |-> "remove_custom_keyword", arg |-> index,
                                 ret |-> Some(custom_keywords[index + 1])])
       ELSE /\ custom_keywords' = custom_keywords
            /\ cfg_last' = Some([op |-> "remove_custom_keyword", arg |-> index,
                                 ret |-> None])
    /\ UNCHANGED <<saved_queries, exec_vars, val_vars, app_vars>>

\* the texts passed to the add methods
ConfigTexts == {<<>>, <<"a">>, <<"b">>}

NextConfig ==
    \/ \E q \in ConfigTexts : AddSavedQuery(q)
    \/ \E i \in 0..MaxIndex : RemoveSavedQuery(i)
    \/ \E k \in ConfigTexts : AddCustomKeyword(k)
    \/ \E i \in 0..MaxIndex : RemoveCustomKeyword(i)

SpecConfig == Init /\ [][NextConfig]_vars

(***************************************************************************)
(* Calls of QueryExecutor::value_to_string on values of every kind.        *)
(***************************************************************************)
Stringify(doc) ==
    /\ val_in' = Some(ReadJson(doc, preserve_order))
    /\ val_out' = Some(ValueToString(ReadJson(doc, preserve_order)))
    /\ UNCHANGED <<exec_vars, cfg_vars, app_vars>>

\* floats of every shape of their text: 1.5, 1.0, 0.0, -0.0, 25.0, 12.34,
\* 1000000000000000.0, 1e+16, 1.234e+16, 0.00001, 0.001234, 1e-6, -1.5e-7
FloatValues ==
    {JFloat(FALSE, 15, -1), JFloat(FALSE, 1, 0), JFloat(FALSE, 0, 0),
     JFloat(TRUE, 0, 0), JFloat(FALSE, 25, 0), JFloat(FALSE, 1234, -2),
     JFloat(FALSE, 1, 15), JFloat(FALSE, 1, 16), JFloat(FALSE, 1234, 13),
     JFloat(FALSE, 1, -5), JFloat(FALSE, 1234, -6), JFloat(FALSE, 1, -6),
     JFloat(TRUE, 15, -8)}

ScalarValues ==
    {JStr(s) : s \in UNION {[1..k -> {"x", "\"", " "}] : k \in 0..2}}
    \cup {JNum(n) : n \in {-12, -1, 0, 7, 10, 42, 105}}
    \cup FloatValues
    \cup {JBool(TRUE), JBool(FALSE), JNull}

NestedValues == {JNum(1), JFloat(FALSE, 15, -1), JStr(<<" ", "\"">>), JNull, JBool(FALSE)}

ValueDocs ==
    ScalarValues
    \cup {JArr(items) : items \in UNION {[1..k -> NestedValues] : k \in 0..2}}
    \cup {JObj(<<>>)}
    \cup {JObj(<< <<k, v>> >>) : k \in Keys, v \in NestedValues}
    \cup {JObj(<< <<k1, v1>>, <<k2, v2>> >>) :
            <<k1, k2>> \in {<<KeyA, KeyB>>, <<KeyB, KeyA>>},
            <<v1, v2>> \in NestedValues \X NestedValues}
    \cup {JArr(<<JNum(1), JStr(<<" ", "\"">>), JNull>>),
          JArr(<<JFloat(TRUE, 15, -8), JFloat(FALSE, 1, 16)>>),
          JArr(<<JStr(<<"\f", "<U+0001>", "<U+0008>">>)>>),
          JObj(<< <<KeyA, JNum(1)>>, <<KeyA, JNum(2)>> >>),
          JArr(<<JArr(<<JNum(1)>>), JObj(<< <<KeyA, JArr(<<>>)>> >>)>>),
          JObj(<< <<KeyA, JObj(<< <<KeyB, JArr(<<JNull, JNum(-1)>>)>> >>)>> >>)}

NextValue == \E doc \in ValueDocs : Stringify(doc)

SpecValue == Init /\ [][NextValue]_vars

(***************************************************************************)
(* WaqlApp (src/src/main.rs): the window's own copy of the pipeline in     *)
(* execute_query, and the Clear Results button of update.  The texts of    *)
(* the window are fixed chunks; the count inside the status message is     *)
(* written out in digits.                                                  *)
(***************************************************************************)
\* main.rs:232
AppMsgEmpty == <<"Please enter a WAQL statement.">>
\* main.rs:235
AppStatusNoQuery == <<"No query entered">>
\* main.rs:313
AppErrorPrefix == <<"Error: ">>
\* main.rs:316
AppStatusFailed == <<"Query failed">>
\* main.rs:302
AppStatusSuccess == <<"Query successful - ">>
AppStatusResults == <<" result(s)">>

\* the split of the trimmed text at its first "|"
AppParseQuery(trimmed) ==
    LET sp == SplitOnce(trimmed, "|")
    IN  IF sp.some
        THEN LET options_str == Trim(sp.val[2])
             IN  [query |-> Trim(sp.val[1]),
                  options |-> IF options_str = <<>> THEN None
                              ELSE Some(JObj(<< <<KeyReturn,
                                     JArr([i \in 1..Len(SplitWhitespace(options_str)) |->
                                             JStr(SplitWhitespace(options_str)[i])])>> >>))]
        ELSE [query |-> trimmed, options |-> None]

\* the match on the value of a cell
AppCellText(v) ==
    CASE v.kind = "string" -> v.s
      [] v.kind = "number" -> NumberToString(v)
      [] v.kind = "bool" -> BoolToString(v.b)
      [] v.kind = "null" -> <<"n", "u", "l", "l">>
      [] OTHER -> ToJsonString(v)

\* the keys of one object, from entry i on: pushed when columns_set.insert
\* says the key is new
RECURSIVE AppPushKeys(_, _, _)
AppPushKeys(columns, entries, i) ==
    IF i > Len(entries) THEN columns
    ELSE AppPushKeys(IF \E j \in 1..Len(columns) : columns[j] = entries[i][1]
                     THEN columns
                     ELSE Append(columns, entries[i][1]),
                     entries, i + 1)

\* the first loop over return_array, from item i on
RECURSIVE AppColumns(_, _, _)
AppColumns(columns, return_array, i) ==
    IF i > Len(return_array) THEN columns
    ELSE AppColumns(IF return_array[i].kind = "object"
                    THEN AppPushKeys(columns, return_array[i].entries, 1)
                    ELSE columns,
                    return_array, i + 1)

\* the row of one object
AppRow(obj, columns) ==
    [col \in {columns[j] : j \in 1..Len(columns)} |->
        IF HasKey(obj, col) THEN AppCellText(GetKey(obj, col)) ELSE <<>>]

\* the second loop over return_array, from item i on
RECURSIVE AppRows(_, _, _)
AppRows(return_array, columns, i) ==
    IF i > Len(return_array) THEN <<>>
    ELSE (IF return_array[i].kind = "object"
          THEN <<AppRow(return_array[i], columns)>> ELSE <<>>)
         \o AppRows(return_array, columns, i + 1)

\* a slip: the table of the query before stays when the client fails
AppAfterAnswerKeepsTable(answer, table_before) ==
    IF answer.ok
    THEN LET ret == ValueGet(answer.val, KeyReturn)
             shown == ret.some /\ ret.val.kind = "array" /\ ret.val.items # <<>>
             columns == AppColumns(<<>>, ret.val.items, 1)
         IN  [result |-> ToStringPretty(answer.val),
              has_error |-> FALSE,
              table_data |-> IF shown
                             THEN Some([columns |-> columns,
                                        rows |-> AppRows(ret.val.items, columns, 1)])
                             ELSE None,
              status_message |-> IF shown
                                 THEN AppStatusSuccess
                                      \o NatToString(Len(ret.val.items))
                                      \o AppStatusResults
                                 ELSE <<>>]
    ELSE [result |-> AppErrorPrefix \o answer.err,
          has_error |-> TRUE,
          table_data |-> table_before,
          status_message |-> AppStatusFailed]

\* the match on the client's answer: the fields execute_query leaves
AppAfterAnswer(answer, table_before) ==
    IF answer.ok
    THEN LET ret == ValueGet(answer.val, KeyReturn)
             shown == ret.some /\ ret.val.kind = "array" /\ ret.val.items # <<>>
             columns == AppColumns(<<>>, ret.val.items, 1)
         IN  [result |-> ToStringPretty(answer.val),
              has_error |-> FALSE,
              table_data |-> IF shown
                             THEN Some([columns |-> columns,
                                        rows |-> AppRows(ret.val.items, columns, 1)])
                             ELSE None,
              status_message |-> IF shown
                                 THEN AppStatusSuccess
                                      \o NatToString(Len(ret.val.items))
                                      \o AppStatusResults
                                 ELSE <<>>]
    ELSE [result |-> AppErrorPrefix \o answer.err,
          has_error |-> TRUE,
          table_data |-> None,
          status_message |-> AppStatusFailed]

\* WaqlApp::default: the fields of a new window; `loaded` is the list of
\* saved queries UserConfig::load takes from user_data.json as it finds it
\* (the empty list of the default when there is no file or it does not parse)
Launch(loaded) ==
    /\ ~app_open
    /\ app_open' = TRUE
    /\ app_code' = <<>>
    /\ app_result' = <<>>
    /\ app_table_data' = None
    /\ has_error' = FALSE
    /\ status_message' = <<>>
    /\ app_saved_queries' = loaded
    /\ app_last' = None
    /\ UNCHANGED <<exec_vars, cfg_vars, val_vars>>

\* the editor changes the text
EditCode(c) ==
    /\ app_open
    /\ app_code' = c
    /\ UNCHANGED <<app_open, app_result, app_table_data, has_error, status_message,
                   app_saved_queries, app_last>>
    /\ UNCHANGED <<exec_vars, cfg_vars, val_vars>>

\* execute_query, the exchange of the client included; net is what the
\* network does with the POST when there is one
ExecuteQuery(net) ==
    /\ app_open
    /\ LET trimmed == Trim(app_code)
       IN  IF trimmed = <<>>
           THEN /\ app_result' = AppMsgEmpty
                /\ has_error' = TRUE
                /\ app_table_data' = None
                /\ status_message' = AppStatusNoQuery
                /\ app_last' = Some([op |-> "execute_query", code |-> app_code,
                                     request |-> None, reply |-> None])
           ELSE LET parsed == AppParseQuery(trimmed)
                    after == AppAfterAnswer(
                                 WaqlQuery(parsed.query, parsed.options, net,
                                           preserve_order),
                                 app_table_data)
                IN  /\ app_result' = after.result
                    /\ has_error' = after.has_error
                    /\ app_table_data' = after.table_data
                    /\ status_message' = after.status_message
                    /\ app_last' = Some([op |-> "execute_query", code |-> app_code,
                                         request |-> Some(parsed),
                                         reply |-> Some(net)])
    /\ UNCHANGED <<app_open, app_code, app_saved_queries>>
    /\ UNCHANGED <<exec_vars, cfg_vars, val_vars>>

\* the Clear Results button, enabled when there is something to clear
ClearResults ==
    /\ app_open
    /\ app_result # <<>> \/ app_table_data.some
    /\ app_result' = <<>>
    /\ app_table_data' = None
    /\ has_error' = FALSE
    /\ status_message' = <<>>
    /\ app_last' = Some([op |-> "clear_results", code |-> app_code,
                         request |-> None, reply |-> None])
    /\ UNCHANGED <<app_open, app_code, app_saved_queries>>
    /\ UNCHANGED <<exec_vars, cfg_vars, val_vars>>

\* main.rs:492
AppSaveFailed == <<"Failed to save config: ">>
\* the text of the error of UserConfig::save (fs::write)
ErrSave == <<"<io::Error: write>">>

\* the Save WAQL button, enabled when the text is not blank; save_ok says
\* whether the configuration file can be written
SaveWaql(save_ok) ==
    /\ app_open
    /\ Trim(app_code) # <<>>
    /\ LET query == Trim(app_code)
       IN  IF query # <<>> /\ ~Contains(app_saved_queries, query)
           THEN /\ app_saved_queries' = Append(app_saved_queries, query)
                /\ app_result' = IF save_ok THEN app_result
                                 ELSE AppSaveFailed \o ErrSave
           ELSE UNCHANGED <<app_saved_queries, app_result>>
    /\ app_last' = Some([op |-> "save_waql", code |-> app_code,
                         request |-> None, reply |-> None])
    /\ UNCHANGED <<app_open, app_code, app_table_data, has_error, status_message>>
    /\ UNCHANGED <<exec_vars, cfg_vars, val_vars>>

\* the Load button of the saved query at `index` (counted from 0): the
\* query goes into the editor
LoadSaved(index) ==
    /\ app_open
    /\ index < Len(app_saved_queries)
    /\ app_code' = app_saved_queries[index + 1]
    /\ app_last' = Some([op |-> "load_saved", code |-> app_code,
                         request |-> None, reply |-> None])
    /\ UNCHANGED <<app_open, app_result, app_table_data, has_error, status_message,
                   app_saved_queries>>
    /\ UNCHANGED <<exec_vars, cfg_vars, val_vars>>

\* the delete button of the saved query at `index`: the query is taken out
\* of the list; what save answers is dropped
DeleteSaved(index) ==
    /\ app_open
    /\ index < Len(app_saved_queries)
    /\ app_saved_queries' = RemoveAt(app_saved_queries, index)
    /\ app_last' = Some([op |-> "delete_saved", code |-> app_code,
                         request |-> None, reply |-> None])
    /\ UNCHANGED <<app_open, app_code, app_result, app_table_data, has_error,
                   status_message>>
    /\ UNCHANGED <<exec_vars, cfg_vars, val_vars>>

\* the lists of saved queries found in user_data.json at the start: none, one
\* the program wrote, one changed by hand that repeats a query and holds a
\* blank one
LoadedLists == {<<>>, << <<"a">> >>, << <<"a">>, <<" ">>, <<"a">> >>}

\* the texts of the editor
AppCodes == {<<"\f", "<U+3000>">>, <<"a">>, <<"a", " ", "|", "a", "<U+00A0>">>}

\* what the network answers the window and the executor
AppNets ==
    {[kind |-> "send_error"]}
    \cup {[kind |-> "json", doc |-> d] :
            d \in {JArr(<<>>), JObj(<<>>), ReturnDoc(JArr(<<>>)),
                   ReturnDoc(JArr(<<JObj(<< <<KeyB, JNum(12)>>, <<KeyA, JStr(<<"x">>)>> >>),
                                    JObj(<< <<KeyA, JNull>> >>)>>)),
                   ReturnDoc(JArr(<<JObj(<< <<KeyA, JNum(1)>> >>), JNum(3)>>)),
                   ReturnDoc(JArr(<<JObj(<< <<KeyA, JFloat(FALSE, 1, -6)>> >>)>>)),
                   ReturnDoc(JArr(<<JNum(3)>>))}}

\* the window alone
NextApp ==
    \/ \E loaded \in LoadedLists : Launch(loaded)
    \/ \E c \in AppCodes : EditCode(c)
    \/ \E net \in AppNets : ExecuteQuery(net)
    \/ ClearResults
    \/ \E save_ok \in BOOLEAN : SaveWaql(save_ok)
    \/ \E index \in 0..(Len(app_saved_queries) - 1) : LoadSaved(index)
    \/ \E index \in 0..(Len(app_saved_queries) - 1) : DeleteSaved(index)

SpecApp == Init /\ [][NextApp]_vars

\* a few texts and answers for the runs of the window beside the executor
BothCodes == {<<"\f", "<U+3000>">>, <<"a">>, <<"|", "a">>}
BothLoaded == {<<>>, << <<"a">> >>}
BothNets ==
    {[kind |-> "send_error"]}
    \cup {[kind |-> "json", doc |-> d] :
            d \in {JArr(<<>>),
                   ReturnDoc(JArr(<<JObj(<< <<KeyB, JNum(12)>>, <<KeyA, JStr(<<"x">>)>> >>),
                                    JObj(<< <<KeyA, JNull>> >>)>>)),
                   ReturnDoc(JArr(<<JObj(<< <<KeyA, JNum(1)>> >>), JNum(3)>>))}}

\* the window and the executor side by side, given the same texts and the
\* same answers
NextBoth ==
    \/ \E loaded \in BothLoaded : Launch(loaded)
    \/ \E c \in BothCodes : EditCode(c)
    \/ \E net \in BothNets : ExecuteQuery(net)
    \/ ClearResults
    \/ \E save_ok \in BOOLEAN : SaveWaql(save_ok)
    \/ \E index \in 0..(Len(app_saved_queries) - 1) : LoadSaved(index)
    \/ \E index \in 0..(Len(app_saved_queries) - 1) : DeleteSaved(index)
    \/ pc = "idle" /\ \E c \in BothCodes : Call(c)
    \/ pc = "transporting" /\ \E net \in BothNets : Exchange(net)
    \/ Return

SpecBoth == Init /\ [][NextBoth]_vars

(***************************************************************************)
(* The properties.  The text operators below say what a result must be     *)
(* without following the steps of the code.                                *)
(***************************************************************************)
MinOf(S) == CHOOSE x \in S : \A y \in S : x <= y
MaxOf(S) == CHOOSE x \in S : \A y \in S : y <= x

\* the places of s that hold no whitespace, and those that hold c
Solid(s) == {i \in 1..Len(s) : ~IsWhitespace(s[i])}
Places(s, c) == {i \in 1..Len(s) : s[i] = c}

\* s without the whitespace around it
Stripped(s) ==
    IF Solid(s) = {} THEN <<>> ELSE SubSeq(s, MinOf(Solid(s)), MaxOf(Solid(s)))

\* the places where a run of non-whitespace starts, and where that run ends
RunStarts(s) == {i \in Solid(s) : i = 1 \/ IsWhitespace(s[i - 1])}
RunEnd(s, i) == MaxOf({j \in i..Len(s) : \A k \in i..j : k \in Solid(s)})

\* the runs of non-whitespace of s, from left to right
Runs(s) ==
    LET starts == RunStarts(s)
        nth(k) == CHOOSE i \in starts : Cardinality({j \in starts : j < i}) = k - 1
    IN  [k \in 1..Cardinality(starts) |-> SubSeq(s, nth(k), RunEnd(s, nth(k)))]

\* the text before and after the first "|" of the trimmed input
BeforeBar(s) == SubSeq(Stripped(s), 1, MinOf(Places(Stripped(s), "|")) - 1)
AfterBar(s) ==
    SubSeq(Stripped(s), MinOf(Places(Stripped(s), "|")) + 1, Len(Stripped(s)))

\* the projection tokens carried by the options of a request
Projection(options) ==
    LET list == GetKey(options.val, KeyReturn).items
    IN  [i \in 1..Len(list) |-> list[i].s]

\* C1: when the trimmed input holds a "|", the clause handed on is the text
\* before the first "|" without the whitespace around it, and, unless the text
\* after that "|" is blank, the projection is the sequence of the runs of
\* non-whitespace of that text, in order, repeats and later "|" included.
C1_SplitAtFirstBar ==
    (request.some /\ Places(Stripped(code), "|") # {}) =>
        /\ request.val.query = Stripped(BeforeBar(code))
        /\ Solid(AfterBar(code)) # {} =>
              /\ request.val.options.some
              /\ request.val.options.val.kind = "object"
              /\ Len(request.val.options.val.entries) = 1
              /\ HasKey(request.val.options.val, KeyReturn)
              /\ Projection(request.val.options) = Runs(AfterBar(code))

\* a request whose projection repeats a token and holds a later "|" in a token
C1_Witness ==
    /\ pc = "transporting"
    /\ code = <<"a", "|", "|", " ", "|">>
    /\ request.val.query = <<"a">>
    /\ Projection(request.val.options) = << <<"|">>, <<"|">> >>

\* C2: the request carries no projection exactly when the trimmed input holds no
\* "|" or the text after its first "|" is blank; without a "|" the clause is the
\* whole input without the whitespace around it.
C2_ProjectionNone ==
    request.some =>
        /\ ~request.val.options.some <=>
              \/ Places(Stripped(code), "|") = {}
              \/ Solid(AfterBar(code)) = {}
        /\ Places(Stripped(code), "|") = {} => request.val.query = Stripped(code)

\* an input with a "|" and nothing but whitespace after it
C2_Witness ==
    /\ pc = "transporting"
    /\ code = <<" ", "a", "|", "\t", " ">>
    /\ request.val = [query |-> <<"a">>, options |-> None]

\* C3: for a blank input execute fails with the hint of the empty query alone:
\* no prefix, no request, no exchange, no result.
C3_EmptyQuery ==
    (pc # "idle" /\ Solid(code) = {}) =>
        /\ pc = "done"
        /\ outcome = Some(Err(MsgEmptyQuery))
        /\ request = None
        /\ envelope = None
        /\ exchanges = 0

C3_Witness ==
    /\ pc = "done"
    /\ code = <<" ", "\t">>
    /\ ~outcome.val.ok

\* C4: every clause handed to the client is non-empty and has no whitespace at
\* its ends.
C4_ClauseNonEmptyTrimmed ==
    request.some =>
        /\ request.val.query # <<>>
        /\ ~IsWhitespace(request.val.query[1])
        /\ ~IsWhitespace(request.val.query[Len(request.val.query)])

\* execute has returned a result that holds a table
HasTable == outcome.some /\ outcome.val.ok /\ outcome.val.val.table_data.some
Table == outcome.val.val.table_data.val

\* the client has returned a JSON object
Answered == response.some /\ response.val.ok

IsObject(v) == v.kind = "object"
ReturnItems(obj) == GetKey(obj, KeyReturn).items

\* the places <<item, entry>> at which key k stands in the objects of items
Occurrences(items, k) ==
    UNION {{<<i, j>> : j \in {j \in 1..Len(items[i].entries) :
                                    items[i].entries[j][1] = k}} :
           i \in {i \in 1..Len(items) : IsObject(items[i])}}

AllKeys(items) ==
    UNION {{items[i].entries[j][1] : j \in 1..Len(items[i].entries)} :
           i \in {i \in 1..Len(items) : IsObject(items[i])}}

Before(p, q) == p[1] < q[1] \/ (p[1] = q[1] /\ p[2] < q[2])

FirstSeen(items, k) ==
    CHOOSE p \in Occurrences(items, k) :
        \A q \in Occurrences(items, k) : p = q \/ Before(p, q)

\* cols holds every key of the objects of items once, in the order in which
\* the keys are first met going through the items and, in an item, its entries
InFirstSeenOrder(cols, items) ==
    /\ \A m, n \in 1..Len(cols) : m # n => cols[m] # cols[n]
    /\ {cols[m] : m \in 1..Len(cols)} = AllKeys(items)
    /\ \A m, n \in 1..Len(cols) :
          m < n => Before(FirstSeen(items, cols[m]), FirstSeen(items, cols[n]))

\* C5: the columns hold no key twice and are in first-seen order, going
\* through the "return" array in order and through the keys of each object in
\* the order the object has them in the response: an element {"b":..,"a":..}
\* gives the columns [b, a], not the alphabetical [a, b].
C5_ColumnsInTextOrder ==
    HasTable => InFirstSeenOrder(Table.columns, ReturnItems(reply.val.doc))

\* C6: every row has exactly the columns as its keys, and holds the empty text
\* under a column whose key its object does not have.
C6_RowsCoverColumns ==
    HasTable =>
        LET colset == {Table.columns[m] : m \in 1..Len(Table.columns)}
            objs == SelectSeq(ReturnItems(response.val.val), IsObject)
        IN  \A r \in 1..Len(Table.rows) :
                /\ DOMAIN Table.rows[r] = colset
                /\ \A c \in colset : ~HasKey(objs[r], c) => Table.rows[r][c] = <<>>

\* a second row without the key of the first, which it holds as the empty text
C6_Witness ==
    /\ HasTable
    /\ Table.columns = <<KeyB, KeyA>>
    /\ Len(Table.rows) = 2
    /\ ~HasKey(ReturnItems(response.val.val)[2], KeyB)
    /\ Table.rows[2][KeyB] = <<>>
    /\ Table.rows[2][KeyA] = <<"1", "2">>

\* C7: a response without "return", with a "return" that is no array, or with
\* an empty "return" array gives a result without a table, and no error.
C7_NoTable ==
    (/\ Answered
     /\ \/ ~HasKey(response.val.val, KeyReturn)
        \/ GetKey(response.val.val, KeyReturn).kind # "array"
        \/ ReturnItems(response.val.val) = <<>>) =>
        /\ outcome.val.ok
        /\ outcome.val.val.table_data = None

C7_Witness ==
    /\ Answered
    /\ HasKey(response.val.val, KeyReturn)
    /\ GetKey(response.val.val, KeyReturn) = JArr(<<>>)
    /\ outcome.val.ok
    /\ ~outcome.val.val.table_data.some

\* C8: the count of a result is 0 without a table and the number of rows with one.
C8_Count ==
    (outcome.some /\ outcome.val.ok) =>
        outcome.val.val.count =
            IF outcome.val.val.table_data.some THEN Len(Table.rows) ELSE 0

\* two items, one of them an object: one row, count 1
C8_Witness ==
    /\ HasTable
    /\ Len(ReturnItems(response.val.val)) = 2
    /\ Len(Table.rows) = 1
    /\ outcome.val.val.count = 1

\* C9: whenever the client returns an object, execute returns a result with the
\* pretty-printed text of that object, with a table or without.
C9_SuccessRawText ==
    Answered =>
        /\ outcome.val.ok
        /\ outcome.val.val.raw_json = ToStringPretty(response.val.val)
        /\ Head(outcome.val.val.raw_json) = "{"
        /\ outcome.val.val.raw_json[Len(outcome.val.val.raw_json)] = "}"

\* a response without tabular data
C9_Witness ==
    /\ Answered
    /\ response.val.val = JObj(<< <<KeyCount, JNum(5)>> >>)
    /\ outcome.val.ok
    /\ outcome.val.val.table_data = None
    /\ Len(outcome.val.val.raw_json) > 2

Failed == outcome.some /\ ~outcome.val.ok

\* the stage a failure of the exchange belongs to: the POST did not get
\* through (transport), or the service answered with an error status
\* (reported by the service)
FailureStage(net) ==
    IF net.kind = "send_error" THEN "transport"
    ELSE IF net.kind = "http_error" THEN "service"
    ELSE "other"

\* the message execute returns for this request when the network does net
FailureText(net) ==
    ExecuteResult(WaqlQuery(request.val.query, request.val.options, net,
                            preserve_order)).err

\* the tag of a message: its text up to the detail
StageTag(message) == message[1]

\* C10: a failure of a stage gives a message made of the tag of the stage and
\* a detail, so that the tag tells a transport error from an error reported by
\* the service (and both from the hint for a blank input, which section 4.5
\* has without a tag): the tag of this failure is not the tag execute gives
\* to a failure of the other stage.
C10_StageTagged ==
    (Failed /\ Solid(code) # {}) =>
        /\ Len(outcome.val.err) >= 2
        /\ StageTag(outcome.val.err) # StageTag(MsgEmptyQuery)
        /\ \A net \in NetFailures :
              ( /\ FailureStage(net) \in {"transport", "service"}
                /\ FailureStage(reply.val) \in {"transport", "service"}
                /\ FailureStage(net) # FailureStage(reply.val) )
              => StageTag(FailureText(net)) # StageTag(outcome.val.err)

\* the value under key k in the text of an object: that of the last member
\* with this key
LastValue(doc, k) ==
    doc.entries[MaxOf({i \in 1..Len(doc.entries) : doc.entries[i][1] = k})][2]

\* v is the JSON value the text doc stands for: the members of an object
\* taken in any order, a key that the text repeats with its last value
RECURSIVE SameJson(_, _)
SameJson(v, doc) ==
    /\ v.kind = doc.kind
    /\ CASE v.kind = "array" ->
              /\ Len(v.items) = Len(doc.items)
              /\ \A i \in 1..Len(v.items) : SameJson(v.items[i], doc.items[i])
         [] v.kind = "object" ->
              /\ \A i, j \in 1..Len(v.entries) :
                    v.entries[i][1] = v.entries[j][1] => i = j
              /\ {v.entries[i][1] : i \in 1..Len(v.entries)}
                    = {doc.entries[i][1] : i \in 1..Len(doc.entries)}
              /\ \A i \in 1..Len(v.entries) :
                    SameJson(v.entries[i][2], LastValue(doc, v.entries[i][1]))
         [] OTHER -> v = doc

\* C11: the client fails with the error of the send when the POST does not get
\* through, with the error of the body when the body is not JSON, with the
\* not-an-object error when the body is JSON but no object; it succeeds only
\* for an object, which it returns with every member as received.
C11_ClientClassifies ==
    response.some =>
        /\ reply.val.kind \in {"send_error", "http_error"} =>
              (~response.val.ok /\ response.val.err \in {ErrSend, ErrStatus})
        /\ reply.val.kind = "bad_body" => response.val = Err(ErrBody)
        /\ (reply.val.kind = "json" /\ reply.val.doc.kind # "object") =>
              response.val = Err(ErrNotObject)
        /\ (reply.val.kind = "json" /\ reply.val.doc.kind = "object") =>
              (response.val.ok /\ SameJson(response.val.val, reply.val.doc))
        /\ response.val.ok => (reply.val.kind = "json" /\ reply.val.doc.kind = "object")

\* a body that is a JSON array
C11_Witness ==
    /\ reply = Some([kind |-> "json", doc |-> JArr(<<JObj(<<>>)>>)])
    /\ response = Some(Err(ErrNotObject))

\* C12: a call makes no exchange for a blank input and exactly one otherwise,
\* never a second one after a failure; a result with the normalised response
\* exists only after the one exchange has succeeded; the call goes from idle to
\* the exchange (or, for a blank input, straight to done), from the exchange to
\* done, and from done back to idle.
C12_OneExchange ==
    /\ [](/\ exchanges <= 1
          /\ pc = "done" => exchanges = (IF Solid(code) = {} THEN 0 ELSE 1)
          /\ pc # "done" => (exchanges = 0 /\ response = None)
          /\ (outcome.some /\ outcome.val.ok) =>
                (exchanges = 1 /\ response.some /\ response.val.ok))
    /\ [][/\ <<pc, pc'>> \in {<<"idle", "transporting">>, <<"idle", "done">>,
                              <<"transporting", "done">>, <<"done", "idle">>}
          /\ exchanges' > exchanges =>
                (pc = "transporting" /\ pc' = "done" /\ exchanges' = exchanges + 1)
          /\ (pc = "idle" /\ pc' = "done") => Solid(code') = {}
          /\ (pc = "transporting" /\ pc' = "done") => exchanges' = exchanges + 1]_vars

\* a failed exchange, after which the call is done
C12_Witness ==
    /\ pc = "done"
    /\ reply = Some([kind |-> "bad_body"])
    /\ exchanges = 1
    /\ ~outcome.val.ok

\* C16: the table has one row for each object of the "return" array, in the
\* order of the array, holding the text of the values of that object; items
\* that are no objects give no column and no row.
C16_RowPerObject ==
    HasTable =>
        LET objs == SelectSeq(ReturnItems(response.val.val), IsObject)
        IN  /\ Len(Table.rows) = Len(objs)
            /\ \A r \in 1..Len(objs) :
                  \A j \in 1..Len(objs[r].entries) :
                      /\ objs[r].entries[j][1] \in DOMAIN Table.rows[r]
                      /\ Table.rows[r][objs[r].entries[j][1]] =
                            ValueToString(objs[r].entries[j][2])

\* an item that is no object before the one object: one row, that of the object
C16_Witness ==
    /\ HasTable
    /\ ReturnItems(response.val.val) = <<JNull, JObj(<< <<KeyA, JNum(12)>> >>)>>
    /\ Table.columns = <<KeyA>>
    /\ Len(Table.rows) = 1
    /\ Table.rows[1][KeyA] = <<"1", "2">>

\* the clause and the projection a query text stands for
ClauseOf(s) ==
    IF Places(Stripped(s), "|") = {} THEN Stripped(s) ELSE Stripped(BeforeBar(s))
HasProjection(s) == Places(Stripped(s), "|") # {} /\ Solid(AfterBar(s)) # {}

\* C18: the body posted has exactly the members uri, args and options: uri is
\* the fixed operation, args is {"waql": clause}, options is {"return": [the
\* projection tokens in order]} with a projection and {} without.
C18_Envelope ==
    envelope.some =>
        LET env == envelope.val
        IN  /\ env.kind = "object"
            /\ Len(env.entries) = 3
            /\ {env.entries[i][1] : i \in 1..3} = {KeyUri, KeyArgs, KeyOptions}
            /\ GetKey(env, KeyUri) = JStr(<<"ak.wwise.core.object.get">>)
            /\ GetKey(env, KeyArgs) = JObj(<< <<KeyWaql, JStr(ClauseOf(code))>> >>)
            /\ GetKey(env, KeyOptions) =
                  IF HasProjection(code)
                  THEN LET tokens == Runs(AfterBar(code))
                       IN  JObj(<< <<KeyReturn,
                                     JArr([i \in 1..Len(tokens) |-> JStr(tokens[i])])>> >>)
                  ELSE JObj(<<>>)

\* a query without projection: the options sent are the empty object
C18_Witness ==
    /\ envelope.some
    /\ code = <<" ", "a", "a">>
    /\ GetKey(envelope.val, KeyOptions) = JObj(<<>>)
    /\ GetKey(envelope.val, KeyArgs) = JObj(<< <<KeyWaql, JStr(<<"a", "a">>)>> >>)

\* C20: a table that normalisation returns has at least one row.
C20_TableHasRows ==
    HasTable => (Len(Table.rows) >= 1 /\ outcome.val.val.count >= 1)


(***************************************************************************)
(* Export.                                                                 *)
(***************************************************************************)
Exported == csv_out.some /\ csv_out.val.ok
CsvRecords == csv_out.val.val.records
CsvText == csv_out.val.val.text

\* the stored value of a row under a column, the empty text when it has none
Stored(row, col) == IF col \in DOMAIN row THEN row[col] ELSE <<>>

\* a field that goes to the file as it is
PlainField(field) ==
    \A i \in 1..Len(field) : field[i] \notin {",", "\"", "\r", "\n"}

\* the fields of a line from index i on, with "," between them
RECURSIVE CommaJoined(_, _)
CommaJoined(fields, i) ==
    IF i > Len(fields) THEN <<>>
    ELSE IF i = Len(fields) THEN fields[i]
    ELSE fields[i] \o <<",">> \o CommaJoined(fields, i + 1)

\* the lines of a text: the pieces ended by a line feed
RECURSIVE Lines(_, _)
Lines(text, current) ==
    IF text = <<>> THEN (IF current = <<>> THEN <<>> ELSE <<current>>)
    ELSE IF Head(text) = "\n" THEN <<current>> \o Lines(Tail(text), <<>>)
    ELSE Lines(Tail(text), Append(current, Head(text)))

ExampleColumns == <<KeyA, KeyB, KeyC>>
ExampleText ==
    <<"a", ",", "b", ",", "c", "\n",
      "1", ",", "x", ",", "\n",
      ",", "y", ",", "t", "r", "u", "e", "\n">>

\* C13: an export hands the writer the columns as the one header record and
\* then one record for each row, in the order of rows, holding under every
\* column, in column order, the row's stored value or the empty text; when
\* no field needs quoting and there are two columns or more, the file is
\* these records as comma-joined lines; and the table a,b,c of the example
\* is written as the lines a,b,c then 1,x, then ,y,true.
C13_ExportRecords ==
    (Exported /\ HasTable) =>
        /\ Len(CsvRecords) = 1 + Len(Table.rows)
        /\ CsvRecords[1] = Table.columns
        /\ \A r \in 1..Len(Table.rows) :
              /\ Len(CsvRecords[r + 1]) = Len(Table.columns)
              /\ \A j \in 1..Len(Table.columns) :
                    CsvRecords[r + 1][j] = Stored(Table.rows[r], Table.columns[j])
        /\ ( /\ Len(Table.columns) >= 2
             /\ \A r \in 1..Len(CsvRecords) : \A j \in 1..Len(CsvRecords[r]) :
                    PlainField(CsvRecords[r][j]) )
           => Lines(CsvText, <<>>) =
                 [r \in 1..Len(CsvRecords) |-> CommaJoined(CsvRecords[r], 1)]
        /\ ( /\ Table.columns = ExampleColumns
             /\ Len(Table.rows) = 2
             /\ Table.rows[1] = (KeyA :> <<"1">> @@ KeyB :> <<"x">> @@ KeyC :> <<>>)
             /\ Table.rows[2] = (KeyA :> <<>> @@ KeyB :> <<"y">> @@ KeyC :> <<"t", "r", "u", "e">>) )
           => CsvText = ExampleText

\* the table of the example has been exported
C13_Witness ==
    /\ Exported /\ HasTable
    /\ Table.columns = ExampleColumns
    /\ Len(Table.rows) = 2
    /\ Table.rows[1][KeyC] = <<>>
    /\ Table.rows[2][KeyA] = <<>>
    /\ CsvText = ExampleText

(***************************************************************************)
(* A reader of delimited text: fields separated by ",", records ended by   *)
(* a line feed or a carriage return, a field that starts with a quote runs *)
(* to its closing quote with "" read as one quote, empty lines skipped.    *)
(***************************************************************************)
RECURSIVE CsvScan(_, _, _, _, _, _)
CsvScan(text, i, mode, field, record, records) ==
    IF i > Len(text)
    THEN IF mode = "line_start" THEN records
         ELSE Append(records, Append(record, field))
    ELSE
      LET ch == text[i]
      IN  IF mode = "quoted"
          THEN IF ch = "\""
               THEN CsvScan(text, i + 1, "quote_end", field, record, records)
               ELSE CsvScan(text, i + 1, "quoted", Append(field, ch), record, records)
          ELSE IF mode = "quote_end" /\ ch = "\""
          THEN CsvScan(text, i + 1, "quoted", Append(field, ch), record, records)
          ELSE IF ch = "\"" /\ mode \in {"line_start", "field_start"}
          THEN CsvScan(text, i + 1, "quoted", <<>>, record, records)
          ELSE IF ch = ","
          THEN CsvScan(text, i + 1, "field_start", <<>>, Append(record, field), records)
          ELSE IF ch \in {"\n", "\r"}
          THEN IF mode = "line_start"
               THEN CsvScan(text, i + 1, "line_start", <<>>, <<>>, records)
               ELSE CsvScan(text, i + 1, "line_start", <<>>, <<>>,
                            Append(records, Append(record, field)))
          ELSE CsvScan(text, i + 1, "plain", Append(field, ch), record, records)

ReadCsv(text) == CsvScan(text, 1, "line_start", <<>>, <<>>, <<>>)

\* C14: reading an exported file back gives the columns of the table in
\* their order as the header and, for each row in order, a record of the
\* row's values under the columns.
C14_RoundTrip ==
    (Exported /\ HasTable) =>
        LET read == ReadCsv(CsvText)
        IN  /\ Len(read) = 1 + Len(Table.rows)
            /\ read[1] = Table.columns
            /\ \A r \in 1..Len(Table.rows) :
                  /\ Len(read[r + 1]) = Len(Table.columns)
                  /\ \A j \in 1..Len(Table.columns) :
                        read[r + 1][j] = Stored(Table.rows[r], Table.columns[j])


(***************************************************************************)
(* The lists of the configuration.                                         *)
(***************************************************************************)
NoDuplicates(list) ==
    \A i, j \in 1..Len(list) : list[i] = list[j] => i = j

\* list2 is list with item put at its end
AppendedOne(list, list2, item) ==
    /\ Len(list2) = Len(list) + 1
    /\ list2[Len(list2)] = item
    /\ \A i \in 1..Len(list) : list2[i] = list[i]

\* C15: from the default configuration, after any calls of the four list
\* methods, saved_queries has no duplicate and custom_keywords has no
\* duplicate and no empty entry; an add of a value already in the list, or
\* of the empty keyword, returns false and leaves the list as it was; every
\* other add returns true and puts exactly the value at the end; an add
\* touches the other list in no case.
C15_ListsStayClean ==
    /\ [](/\ NoDuplicates(saved_queries)
          /\ NoDuplicates(custom_keywords)
          /\ \A i \in 1..Len(custom_keywords) : custom_keywords[i] # <<>>)
    /\ [][/\ (cfg_last'.some /\ cfg_last'.val.op = "add_saved_query") =>
                /\ custom_keywords' = custom_keywords
                /\ cfg_last'.val.ret = (\A i \in 1..Len(saved_queries) :
                                            saved_queries[i] # cfg_last'.val.arg)
                /\ cfg_last'.val.ret =>
                       AppendedOne(saved_queries, saved_queries', cfg_last'.val.arg)
                /\ ~cfg_last'.val.ret => saved_queries' = saved_queries
          /\ (cfg_last'.some /\ cfg_last'.val.op = "add_custom_keyword") =>
                /\ saved_queries' = saved_queries
                /\ cfg_last'.val.ret =
                       (/\ cfg_last'.val.arg # <<>>
                        /\ \A i \in 1..Len(custom_keywords) :
                              custom_keywords[i] # cfg_last'.val.arg)
                /\ cfg_last'.val.ret =>
                       AppendedOne(custom_keywords, custom_keywords', cfg_last'.val.arg)
                /\ ~cfg_last'.val.ret => custom_keywords' = custom_keywords]_vars

\* the empty keyword has just been refused, after adds and removes that left
\* both lists filled and the list of queries holding the empty text
C15_Witness ==
    /\ cfg_last.some
    /\ cfg_last.val.op = "add_custom_keyword"
    /\ cfg_last.val.arg = <<>>
    /\ cfg_last.val.ret = FALSE
    /\ custom_keywords = << <<"b">>, <<"a">> >>
    /\ saved_queries = << <<"b">>, <<>>, <<"a">> >>

(***************************************************************************)
(* The text of a cell.                                                     *)
(***************************************************************************)
Digits == {"0", "1", "2", "3", "4", "5", "6", "7", "8", "9"}
DigitValue(c) == CHOOSE d \in 0..9 : <<"0", "1", "2", "3", "4", "5", "6", "7", "8", "9">>[d + 1] = c

\* the number written by a row of digits
RECURSIVE DigitsValue(_)
DigitsValue(text) ==
    IF text = <<>> THEN 0
    ELSE 10 * DigitsValue(SubSeq(text, 1, Len(text) - 1)) + DigitValue(text[Len(text)])

\* a decimal numeral: digits without a leading zero, a minus sign before
\* the digits of a negative number
IsDecimal(text) ==
    LET digits == IF text # <<>> /\ Head(text) = "-" THEN Tail(text) ELSE text
    IN  /\ digits # <<>>
        /\ \A i \in 1..Len(digits) : digits[i] \in Digits
        /\ Len(digits) > 1 => digits[1] # "0"
        /\ Head(text) = "-" => digits # <<"0">>

DecimalValue(text) ==
    IF Head(text) = "-" THEN 0 - DigitsValue(Tail(text)) ELSE DigitsValue(text)

\* where the character c first stands in text, 0 when it does not
PlaceOf(text, c) ==
    IF \E i \in 1..Len(text) : text[i] = c
    THEN MinOf({i \in 1..Len(text) : text[i] = c})
    ELSE 0

\* a signed numeral without the plus sign it may start with
Unsigned(text) == IF text # <<>> /\ Head(text) = "+" THEN Tail(text) ELSE text

\* the parts of a numeral: its sign, the digits before the point, the digits
\* after it, and the signed digits after the letter e
NumeralParts(text) ==
    LET neg == text # <<>> /\ Head(text) = "-"
        body == IF neg THEN Tail(text) ELSE text
        e == PlaceOf(body, "e")
        mantissa == IF e = 0 THEN body ELSE SubSeq(body, 1, e - 1)
        dot == PlaceOf(mantissa, ".")
    IN  [neg |-> neg,
         whole |-> IF dot = 0 THEN mantissa ELSE SubSeq(mantissa, 1, dot - 1),
         has_point |-> dot # 0,
         fraction |-> IF dot = 0 THEN <<>> ELSE SubSeq(mantissa, dot + 1, Len(mantissa)),
         has_power |-> e # 0,
         power |-> IF e = 0 THEN <<>> ELSE SubSeq(body, e + 1, Len(body))]

\* a numeral in base ten as JSON writes numbers: an optional minus sign,
\* digits without a leading zero, then optionally a point with digits after
\* it, then optionally the letter e with a whole numeral that may carry a
\* plus sign
IsNumeral(text) ==
    LET p == NumeralParts(text)
    IN  /\ p.whole # <<>>
        /\ \A i \in 1..Len(p.whole) : p.whole[i] \in Digits
        /\ Len(p.whole) > 1 => p.whole[1] # "0"
        /\ p.has_point => p.fraction # <<>>
        /\ \A i \in 1..Len(p.fraction) : p.fraction[i] \in Digits
        /\ p.has_power => IsDecimal(Unsigned(p.power))

\* a row of digits without the zeros at its end
RECURSIVE DropZerosAtEnd(_)
DropZerosAtEnd(digits) ==
    IF digits # <<>> /\ digits[Len(digits)] = "0"
    THEN DropZerosAtEnd(SubSeq(digits, 1, Len(digits) - 1))
    ELSE digits

\* a number as sign, digits and power of ten, the digits without a zero at
\* the end: the same for two ways of writing one number
RECURSIVE Reduced(_, _, _)
Reduced(neg, m, e) ==
    IF m = 0 THEN [neg |-> neg, m |-> 0, e |-> 0]
    ELSE IF m % 10 = 0 THEN Reduced(neg, m \div 10, e + 1)
    ELSE [neg |-> neg, m |-> m, e |-> e]

\* the number a numeral writes
NumeralValue(text) ==
    LET p == NumeralParts(text)
        all == p.whole \o p.fraction
        kept == DropZerosAtEnd(all)
        power == IF p.has_power THEN DecimalValue(Unsigned(p.power)) ELSE 0
    IN  Reduced(p.neg, DigitsValue(kept),
                power - Len(p.fraction) + (Len(all) - Len(kept)))

\* the number a JSON number is
NumberValue(v) ==
    IF v.float THEN Reduced(v.neg, v.n, v.exp)
    ELSE Reduced(v.n < 0, IF v.n < 0 THEN 0 - v.n ELSE v.n, 0)

\* a JSON text without the blanks and line ends that stand outside of its
\* string literals
RECURSIVE StripLayout(_, _, _)
StripLayout(text, in_string, escaped) ==
    IF text = <<>> THEN <<>>
    ELSE LET ch == Head(text)
         IN  IF in_string
             THEN <<ch>> \o StripLayout(Tail(text),
                                        escaped \/ ch # "\"",
                                        ~escaped /\ ch = "\\")
             ELSE IF ch \in {" ", "\n"}
             THEN StripLayout(Tail(text), FALSE, FALSE)
             ELSE <<ch>> \o StripLayout(Tail(text), ch = "\"", FALSE)

Stringified == val_in.some /\ val_out.some

\* C17: the text of a cell is, for a string, the string itself without
\* quotes; for a number, a numeral in base ten that writes exactly its value
\* (an integer as its digits alone, a float with a point or a power of ten,
\* as 1.5, -0.0 and 1e+16, so that it reads back as a float); for a boolean,
\* true or false; for null, the four letters null, which is not the empty
\* text of an absent key; for an array or an object, its JSON text on one
\* line: the pretty-printed text without its layout, as in [1," \"",null]
\* and {"a":1}.
C17_CellText ==
    Stringified =>
        /\ val_in.val.kind = "string" => val_out.val = val_in.val.s
        /\ val_in.val.kind = "number" =>
              /\ IsNumeral(val_out.val)
              /\ NumeralValue(val_out.val) = NumberValue(val_in.val)
              /\ ~val_in.val.float =>
                    /\ IsDecimal(val_out.val)
                    /\ DecimalValue(val_out.val) = val_in.val.n
              /\ val_in.val.float =>
                    \E i \in 1..Len(val_out.val) : val_out.val[i] \in {".", "e"}
        /\ val_in.val.kind = "bool" =>
              val_out.val = (IF val_in.val.b THEN <<"t", "r", "u", "e">>
                             ELSE <<"f", "a", "l", "s", "e">>)
        /\ val_in.val.kind = "null" =>
              (val_out.val = <<"n", "u", "l", "l">> /\ val_out.val # <<>>)
        /\ val_in.val.kind \in {"array", "object"} =>
              /\ val_out.val = StripLayout(ToStringPretty(val_in.val), FALSE, FALSE)
              /\ \A i \in 1..Len(val_out.val) : val_out.val[i] # "\n"
        /\ val_in.val = JArr(<<JNum(1), JStr(<<" ", "\"">>), JNull>>) =>
              val_out.val = <<"[", "1", ",", "\"", " ", "\\", "\"", "\"", ",",
                              "n", "u", "l", "l", "]">>
        /\ val_in.val = JObj(<< <<KeyA, JNum(1)>> >>) =>
              val_out.val = <<"{", "\"", "a", "\"", ":", "1", "}">>
        /\ val_in.val = JArr(<<>>) => val_out.val = <<"[", "]">>

\* a float has been written as a cell, with a power of ten
C17_Witness ==
    /\ Stringified
    /\ val_in.val = JFloat(FALSE, 1234, 13)
    /\ val_out.val = <<"1", ".", "2", "3", "4", "e", "+", "1", "6">>


(***************************************************************************)
(* The window.                                                             *)
(***************************************************************************)
\* the window and the executor have both finished on the same text and the
\* same answer of the network
SameRun ==
    /\ pc = "done"
    /\ outcome.some
    /\ app_last.some
    /\ app_last.val.op = "execute_query"
    /\ app_last.val.code = code
    /\ app_last.val.reply = reply

\* the status message shows a count
ShowsCount ==
    /\ Len(status_message) >= 3
    /\ status_message[1] = "Query successful - "
    /\ status_message[Len(status_message)] = " result(s)"

\* the count the status message shows
ShownCount == DecimalValue(SubSeq(status_message, 2, Len(status_message) - 1))

SameDecision == SameRun => (has_error = ~outcome.val.ok)
SameRequest == SameRun => (app_last.val.request = request)
SameTable == (SameRun /\ outcome.val.ok) => (app_table_data = outcome.val.val.table_data)
SameCount == (SameRun /\ outcome.val.ok /\ ShowsCount) => (ShownCount = outcome.val.val.count)

\* C21: on the same text and the same answer of the service, execute_query
\* of the window and execute of the executor decide alike between error and
\* success, derive the same clause and options, build the same table, and
\* the count of the window's status message is the count of the QueryResult.
C21_PipelinesAgree ==
    /\ SameDecision
    /\ SameRequest
    /\ SameTable
    /\ SameCount

\* C22: in every state of the window an error showing means there is no
\* table, and right after Clear Results the result text is empty, there is
\* no table, no error shows and the status message is empty.
C22_NoStaleTable ==
    /\ has_error => ~app_table_data.some
    /\ (app_last.some /\ app_last.val.op = "clear_results") =>
          /\ app_result = <<>>
          /\ app_table_data = None
          /\ has_error = FALSE
          /\ status_message = <<>>
    /\ (app_last.some /\ app_last.val.op = "execute_query") =>
          (has_error = (~app_last.val.reply.some
                        \/ app_last.val.reply.val.kind # "json"
                        \/ app_last.val.reply.val.doc.kind # "object"))

\* a query has failed in the window: the error shows and no table is held
C22_Witness ==
    /\ app_last.some
    /\ app_last.val.op = "execute_query"
    /\ app_last.val.reply = Some([kind |-> "send_error"])
    /\ has_error
    /\ app_table_data = None
    /\ status_message = <<"Query failed">>

=============================================================================
